---- MODULE Spec2Model ----
(***************************************************************************)
(* Model of src/src/signal.rs: the pull-based Signal combinators (Map2,    *)
(* MapDedupe, FilterMap, Flatten) and the unsync mutable variable          *)
(* (Sender / Receiver).  Every combinator is modelled by an operator that  *)
(* computes one call of its poll method from the node's fields and from    *)
(* what its upstream signal(s) return, and by an action that applies it.   *)
(***************************************************************************)
EXTENDS Integers, Sequences, FiniteSets, TLC

\* ---------------------------------------------------------------- bounds
MaxVal == 3          \* item values are 1..MaxVal
MaxPolls == 6        \* number of poll calls made on a combinator node
MaxBurst == 2        \* values an upstream can hand out back to back in one call
MaxInner == 3        \* inner signals the outer signal of a Flatten hands out
MaxOps == 5          \* operations made on a mutable variable
MaxClones == 2       \* Receiver clones alive at a time
MaxTasks == 2        \* tasks that poll a Receiver
MaxArity == 5        \* sources handed to one map_rc! call
MaxSets == 3         \* Sender.set calls made on the variable a driver reads

Values == 1..MaxVal

\* ------------------------------------------------- State<A>, Option<A>
NotChanged == [tag |-> "NotChanged", value |-> 0]
Changed(v) == [tag |-> "Changed", value |-> v]
IsChanged(s) == s.tag = "Changed"

None == [some |-> FALSE, value |-> 0]
Some(v) == [some |-> TRUE, value |-> v]

\* What a signal can answer to one poll.
States(S) == {NotChanged} \cup {Changed(v) : v \in S}

\* Marks an upstream that was not polled in a call.
NotPolled == [tag |-> "NotPolled", value |-> 0]

VARIABLES
    \* Map2 { signal1, signal2, callback, left, right }
    m2_left,        \* Map2.left  : Option<A::Item>
    m2_right,       \* Map2.right : Option<B::Item>
    m2_polled,      \* upstream polls made by the last Map2.poll, in order
    m2_res1,        \* what signal1 returned in the last call
    m2_res2,        \* what signal2 returned in the last call (or NotPolled)
    m2_out,         \* what the last Map2.poll returned
    m2_polls,       \* number of Map2.poll calls so far
    m2_seen1,       \* most recent value signal1 has returned as Changed
    m2_seen2,       \* most recent value signal2 has returned as Changed
    m2_nChanged,    \* number of calls that returned Changed
    m2_nExpected,   \* number of calls with a change and both sides available
    \* MapDedupe { old_value, signal, callback }
    md_old_value,   \* MapDedupe.old_value : Option<A::Item>
    md_callback,    \* which closure the node was built with
    md_ups,         \* what the upstream returned to the polls of the last call
    md_out,         \* what the last MapDedupe.poll returned
    md_polls,       \* number of MapDedupe.poll calls so far
    md_emitBefore,  \* input of the latest Changed output before the last call
    md_emitted,     \* input of the latest Changed output
    md_oneEach,     \* every call so far was fed exactly one upstream value
    md_fed,         \* the values fed, while md_oneEach
    md_outs,        \* the results returned, while md_oneEach
    \* FilterMap { signal, callback, first }
    fm_first,       \* FilterMap.first : bool
    fm_ups,         \* what the upstream returned to the polls of the last call
    fm_out,         \* what the last FilterMap.poll returned
    fm_polls,       \* number of FilterMap.poll calls so far
    fm_upBefore,    \* values the upstream had handed out before the last call
    fm_nChanged,    \* number of calls that returned Changed
    fm_nNone,       \* number of calls that returned Changed(None)
    fm_noneLate,    \* a Changed(None) was returned after another Changed
    fm_oneEach,     \* every call so far was fed exactly one upstream value
    fm_fed,         \* the callback results of the values fed, while fm_oneEach
    fm_outs,        \* the results returned, while fm_oneEach
    \* Flatten { signal, inner }; the inner signals are named 1, 2, ... in the
    \* order in which the outer signal hands them out, and each of them is the
    \* Receiver of a mutable variable of its own
    fl_inner,       \* Flatten.inner : Option<A::Item>
    fl_cells,       \* fl_cells[i]: the pending value of inner signal i
    fl_outer,       \* what the outer signal returned in the last call
    fl_polled,      \* the inner signals polled by the last call, in order
    fl_innerRes,    \* what the polled inner signal returned (or NotPolled)
    fl_out,         \* what the last Flatten.poll returned
    fl_polls,       \* number of Flatten.poll calls so far
    fl_quiet,       \* the current inner signal, if it was handed out empty
    \* unsync::mutable: Inner { value, task } shared by Sender and Receivers
    mu_inner,       \* the cell: [value : Option<A>, task : Option<Task>]
    mu_receivers,   \* number of live Receiver clones (strong references)
    mu_notified,    \* mu_notified[t]: number of times task t was notified
    mu_nops,        \* number of operations so far
    mu_last,        \* the last operation and what it returned
    mu_prev,        \* the latest set or poll before the last operation
    mu_writes,      \* the values written since the last Receiver.poll
    mu_waiters,     \* the tasks that were answered NotChanged since the last set
    mu_taken,       \* polls answered Changed since the cell got its latest value
    \* map_rc!(v1, ..., vN => f) over N Always sources
    mr_n,           \* N, the number of arguments of the macro call
    mr_init,        \* the values the N sources were built with
    mr_always,      \* mr_always[k]: the value field of the k-th Always
    mr_left,        \* mr_left[k]: the left field of the Map2 that adds source k
    mr_right,       \* mr_right[k]: the right field of that Map2
    mr_out,         \* what the last poll of the macro's signal returned
    mr_polls,       \* number of polls of the macro's signal so far
    \* for_each over mutable(..).map(..): the cell, the flag, the spawned task
    dr_inner,       \* the cell of the mutable variable at the root of the chain
    dr_receivers,   \* 1 while the Receiver owned by the chain is alive
    dr_done,        \* the Rc<Cell<bool>> shared by DropHandle and DropStream
    dr_handle,      \* "none" before for_each, "held" once returned, "used" by stop
    dr_task,        \* the spawned task: "none", "queued", "parked" or "finished"
    dr_calls,       \* the values the callback was invoked with, in order
    dr_polls,       \* number of polls of the chain so far
    dr_runs,        \* number of times the scheduler ran the task
    dr_nsets,       \* number of Sender.set calls so far
    dr_nops,        \* number of steps so far
    dr_last,        \* the last step and what it did
    dr_lastSet,     \* the value the variable was given last
    dr_owed,        \* a set woke the parked task and its value is not delivered yet
    dr_stopRuns,    \* dr_runs when stop was called, -1 before
    dr_stopAt,      \* dr_task when stop was called, "none" before
    \* for_each over mutable(inner).flatten(): the inner signals are Receivers
    fd_outer,       \* the cell of the outer variable; its value is an inner signal
    fd_cells,       \* fd_cells[i]: the value field of the cell of inner signal i
    fd_itask,       \* fd_itask[i]: the task field of the cell of inner signal i
    fd_inner,       \* Flatten.inner : Option<A::Item>
    fd_task,        \* the spawned task: "none", "queued" or "parked"
    fd_nsets,       \* number of Sender.set calls so far, outer and inner
    fd_nops,        \* number of steps so far
    fd_last,        \* the last step and what it did
    fd_owed         \* a set of the outer variable found the task parked and the
                    \* inner signal it wrote has not been polled yet

m2vars == <<m2_left, m2_right, m2_polled, m2_res1, m2_res2, m2_out, m2_polls,
            m2_seen1, m2_seen2, m2_nChanged, m2_nExpected>>

mdvars == <<md_old_value, md_callback, md_ups, md_out, md_polls, md_emitBefore,
            md_emitted, md_oneEach, md_fed, md_outs>>

fmvars == <<fm_first, fm_ups, fm_out, fm_polls, fm_upBefore, fm_nChanged,
            fm_nNone, fm_noneLate, fm_oneEach, fm_fed, fm_outs>>

flvars == <<fl_inner, fl_cells, fl_outer, fl_polled, fl_innerRes, fl_out, fl_polls,
            fl_quiet>>

muvars == <<mu_inner, mu_receivers, mu_notified, mu_nops, mu_last, mu_prev,
            mu_writes, mu_waiters, mu_taken>>

mrvars == <<mr_n, mr_init, mr_always, mr_left, mr_right, mr_out, mr_polls>>

drvars == <<dr_inner, dr_receivers, dr_done, dr_handle, dr_task, dr_calls, dr_polls,
            dr_runs, dr_nsets, dr_nops, dr_last, dr_lastSet, dr_owed, dr_stopRuns,
            dr_stopAt>>

fdvars == <<fd_outer, fd_cells, fd_itask, fd_inner, fd_task, fd_nsets, fd_nops,
            fd_last, fd_owed>>

vars == <<m2vars, mdvars, fmvars, flvars, muvars, mrvars, drvars, fdvars>>

\* ------------------------------------------------------------------ Map2
\* The combine closure; pair_clone is the one the map macros pass.
pair_clone(left, right) == <<left, right>>

\* A poll that never short-circuits: the right side is polled even when the
\* left side returned NotChanged and nothing is cached for it.
Map2_poll_always_both(left, right, s1, s2) ==
    IF IsChanged(s1)
    THEN [out    |-> IF IsChanged(s2) THEN Changed(pair_clone(s1.value, s2.value))
                     ELSE IF right.some THEN Changed(pair_clone(s1.value, right.value))
                     ELSE NotChanged,
          left   |-> Some(s1.value),
          right  |-> IF IsChanged(s2) THEN Some(s2.value) ELSE right,
          polled |-> <<"signal1", "signal2">>]
    ELSE [out    |-> IF left.some /\ IsChanged(s2)
                     THEN Changed(pair_clone(left.value, s2.value)) ELSE NotChanged,
          left   |-> left,
          right  |-> IF left.some /\ IsChanged(s2) THEN Some(s2.value) ELSE right,
          polled |-> <<"signal1", "signal2">>]

\* A poll that ignores the cached right value: a change of the left side alone
\* produces nothing.
Map2_poll_ignore_cache(left, right, s1, s2) ==
    IF IsChanged(s1)
    THEN [out    |-> IF IsChanged(s2) THEN Changed(pair_clone(s1.value, s2.value))
                     ELSE NotChanged,
          left   |-> Some(s1.value),
          right  |-> IF IsChanged(s2) THEN Some(s2.value) ELSE right,
          polled |-> <<"signal1", "signal2">>]
    ELSE IF left.some
    THEN [out    |-> IF IsChanged(s2)
                     THEN Changed(pair_clone(left.value, s2.value)) ELSE NotChanged,
          left   |-> left,
          right  |-> IF IsChanged(s2) THEN Some(s2.value) ELSE right,
          polled |-> <<"signal1", "signal2">>]
    ELSE [out |-> NotChanged, left |-> left, right |-> right,
          polled |-> <<"signal1">>]

\* A poll that does not refresh the cached right value when only the right
\* side changed.
Map2_poll_stale_right(left, right, s1, s2) ==
    IF IsChanged(s1)
    THEN [out    |-> IF IsChanged(s2) THEN Changed(pair_clone(s1.value, s2.value))
                     ELSE IF right.some THEN Changed(pair_clone(s1.value, right.value))
                     ELSE NotChanged,
          left   |-> Some(s1.value),
          right  |-> IF IsChanged(s2) THEN Some(s2.value) ELSE right,
          polled |-> <<"signal1", "signal2">>]
    ELSE IF left.some
    THEN [out    |-> IF IsChanged(s2)
                     THEN Changed(pair_clone(left.value, s2.value)) ELSE NotChanged,
          left   |-> left,
          right  |-> right,
          polled |-> <<"signal1", "signal2">>]
    ELSE [out |-> NotChanged, left |-> left, right |-> right,
          polled |-> <<"signal1">>]

\* One call of Map2::poll.  left, right are the fields before the call; s1
\* and s2 are what signal1 and signal2 return if they are polled in it.
Map2_poll(left, right, s1, s2) ==
    IF IsChanged(s1)
    THEN \* State::Changed(mut left) => poll signal2, store left
         [out    |-> IF IsChanged(s2) THEN Changed(pair_clone(s1.value, s2.value))
                     ELSE IF right.some THEN Changed(pair_clone(s1.value, right.value))
                     ELSE NotChanged,
          left   |-> Some(s1.value),
          right  |-> IF IsChanged(s2) THEN Some(s2.value) ELSE right,
          polled |-> <<"signal1", "signal2">>]
    ELSE IF left.some
    THEN \* State::NotChanged => match self.left { Some(..) => poll signal2 }
         [out    |-> IF IsChanged(s2)
                     THEN Changed(pair_clone(left.value, s2.value)) ELSE NotChanged,
          left   |-> left,
          right  |-> IF IsChanged(s2) THEN Some(s2.value) ELSE right,
          polled |-> <<"signal1", "signal2">>]
    ELSE \* None => State::NotChanged, signal2 is not polled
         [out |-> NotChanged, left |-> left, right |-> right,
          polled |-> <<"signal1">>]

\* Signal::map2: both caches start empty.
Map2Init ==
    /\ m2_left = None
    /\ m2_right = None
    /\ m2_polled = << >>
    /\ m2_res1 = NotPolled
    /\ m2_res2 = NotPolled
    /\ m2_out = NotChanged
    /\ m2_polls = 0
    /\ m2_seen1 = None
    /\ m2_seen2 = None
    /\ m2_nChanged = 0
    /\ m2_nExpected = 0

\* The owner of the node calls Map2::poll; the two upstreams answer s1, s2.
Map2Poll(s1, s2) ==
    LET r  == Map2_poll(m2_left, m2_right, s1, s2)
        p2 == Len(r.polled) = 2
        a1 == IF IsChanged(s1) THEN Some(s1.value) ELSE m2_seen1
        a2 == IF p2 /\ IsChanged(s2) THEN Some(s2.value) ELSE m2_seen2
    IN /\ m2_polls < MaxPolls
       /\ m2_left' = r.left
       /\ m2_right' = r.right
       /\ m2_polled' = r.polled
       /\ m2_res1' = s1
       /\ m2_res2' = IF p2 THEN s2 ELSE NotPolled
       /\ m2_out' = r.out
       /\ m2_polls' = m2_polls + 1
       /\ m2_seen1' = a1
       /\ m2_seen2' = a2
       /\ m2_nChanged' = m2_nChanged + (IF IsChanged(r.out) THEN 1 ELSE 0)
       /\ m2_nExpected' = m2_nExpected +
             (IF (IsChanged(s1) \/ (p2 /\ IsChanged(s2))) /\ a1.some /\ a2.some
              THEN 1 ELSE 0)
       /\ UNCHANGED <<mdvars, fmvars, flvars, muvars, mrvars, drvars, fdvars>>

Map2Next == \E s1 \in States(Values), s2 \in States(Values) : Map2Poll(s1, s2)

\* ------------------------------------------------------------- MapDedupe
\* An upstream seen from one call of a looping poll: it returns Changed(ups[1]),
\* Changed(ups[2]), ... to the successive polls of the call and NotChanged once
\* ups is used up.
Bursts == UNION {[1..n -> Values] : n \in 0..MaxBurst}

Last(s) == s[Len(s)]

\* The closures a MapDedupe node is built with here: the identity and a
\* transform that maps different inputs to one output.
Callbacks == {"identity", "half"}
dedupe_callback(cb, value) == IF cb = "identity" THEN value ELSE value \div 2

\* A poll that remembers the transformed output instead of the input.
RECURSIVE MapDedupe_poll_cache_output(_, _, _)
MapDedupe_poll_cache_output(old_value, cb, ups) ==
    IF ups = << >>
    THEN [out |-> NotChanged, old_value |-> old_value, ups |-> <<NotChanged>>]
    ELSE LET value == Head(ups)
             has_changed == IF old_value.some THEN old_value.value # value ELSE TRUE
         IN IF has_changed
            THEN [out       |-> Changed(dedupe_callback(cb, value)),
                  old_value |-> Some(dedupe_callback(cb, value)),
                  ups       |-> <<Changed(value)>>]
            ELSE LET r == MapDedupe_poll_cache_output(old_value, cb, Tail(ups))
                 IN [r EXCEPT !.ups = <<Changed(value)>> \o @]

\* A poll that returns NotChanged as soon as it has dropped a duplicate.
MapDedupe_poll_early_return(old_value, cb, ups) ==
    IF ups = << >>
    THEN [out |-> NotChanged, old_value |-> old_value, ups |-> <<NotChanged>>]
    ELSE LET value == Head(ups)
             has_changed == IF old_value.some THEN old_value.value # value ELSE TRUE
         IN IF has_changed
            THEN [out       |-> Changed(dedupe_callback(cb, value)),
                  old_value |-> Some(value),
                  ups       |-> <<Changed(value)>>]
            ELSE [out |-> NotChanged, old_value |-> old_value,
                  ups |-> <<Changed(value)>>]

\* One call of MapDedupe::poll.  The result holds the value returned, the new
\* old_value and the answers the upstream gave to the polls of the loop.
RECURSIVE MapDedupe_poll(_, _, _)
MapDedupe_poll(old_value, cb, ups) ==
    IF ups = << >>
    THEN \* State::NotChanged => return State::NotChanged
         [out |-> NotChanged, old_value |-> old_value, ups |-> <<NotChanged>>]
    ELSE LET value == Head(ups)
             has_changed == IF old_value.some THEN old_value.value # value ELSE TRUE
         IN IF has_changed
            THEN [out       |-> Changed(dedupe_callback(cb, value)),
                  old_value |-> Some(value),
                  ups       |-> <<Changed(value)>>]
            ELSE \* a duplicate: next turn of the loop
                 LET r == MapDedupe_poll(old_value, cb, Tail(ups))
                 IN [r EXCEPT !.ups = <<Changed(value)>> \o @]

\* The upstream handed exactly one value to a call.
FedOne(answers) ==
    /\ IsChanged(answers[1])
    /\ Len(answers) > 1 => answers[2] = NotChanged

\* Signal::map_dedupe: no old value.
MapDedupeInit ==
    /\ md_old_value = None
    /\ md_callback \in Callbacks
    /\ md_ups = << >>
    /\ md_out = NotChanged
    /\ md_polls = 0
    /\ md_emitBefore = None
    /\ md_emitted = None
    /\ md_oneEach = TRUE
    /\ md_fed = << >>
    /\ md_outs = << >>

\* The owner of the node calls MapDedupe::poll.
MapDedupePoll(ups) ==
    LET r   == MapDedupe_poll(md_old_value, md_callback, ups)
        one == md_oneEach /\ FedOne(r.ups)
    IN /\ md_polls < MaxPolls
       /\ md_old_value' = r.old_value
       /\ md_ups' = r.ups
       /\ md_out' = r.out
       /\ md_polls' = md_polls + 1
       /\ md_emitBefore' = md_emitted
       /\ md_emitted' = IF IsChanged(r.out) THEN Some(Last(r.ups).value)
                         ELSE md_emitted
       /\ md_oneEach' = one
       /\ md_fed' = IF one THEN Append(md_fed, r.ups[1].value) ELSE << >>
       /\ md_outs' = IF one THEN Append(md_outs, r.out) ELSE << >>
       /\ UNCHANGED md_callback
       /\ UNCHANGED <<m2vars, fmvars, flvars, muvars, mrvars, drvars, fdvars>>

MapDedupeNext == \E ups \in Bursts : MapDedupePoll(ups)

\* ------------------------------------------------------------- FilterMap
\* The closure the FilterMap node is built with: it rejects 1 and maps every
\* other value v to v + 3.
filter_callback(value) == IF value = 1 THEN None ELSE Some(value + 3)

\* Upstream answers of a call that carry a value.
ChangedCount(answers) == Cardinality({i \in DOMAIN answers : IsChanged(answers[i])})

\* A poll without the one-time Changed(None): a rejected value is always
\* swallowed.
RECURSIVE FilterMap_poll_no_initial(_, _)
FilterMap_poll_no_initial(first, ups) ==
    IF ups = << >>
    THEN [out |-> NotChanged, first |-> first, ups |-> <<NotChanged>>]
    ELSE LET value == Head(ups)
             mapped == filter_callback(value)
         IN IF mapped.some
            THEN [out |-> Changed(mapped), first |-> FALSE, ups |-> <<Changed(value)>>]
            ELSE LET r == FilterMap_poll_no_initial(FALSE, Tail(ups))
                 IN [r EXCEPT !.ups = <<Changed(value)>> \o @]

\* A poll that never clears the flag when it returns Changed(Some(..)).
RECURSIVE FilterMap_poll_keep_first(_, _)
FilterMap_poll_keep_first(first, ups) ==
    IF ups = << >>
    THEN [out |-> NotChanged, first |-> first, ups |-> <<NotChanged>>]
    ELSE LET value == Head(ups)
             mapped == filter_callback(value)
         IN IF mapped.some
            THEN [out |-> Changed(mapped), first |-> first, ups |-> <<Changed(value)>>]
            ELSE IF first
            THEN [out |-> Changed(None), first |-> FALSE, ups |-> <<Changed(value)>>]
            ELSE LET r == FilterMap_poll_keep_first(first, Tail(ups))
                 IN [r EXCEPT !.ups = <<Changed(value)>> \o @]

\* One call of FilterMap::poll.  The result holds the value returned (a
\* State<Option<C>>), the new flag and the answers the upstream gave to the
\* polls of the loop.
RECURSIVE FilterMap_poll(_, _)
FilterMap_poll(first, ups) ==
    IF ups = << >>
    THEN \* State::NotChanged => return State::NotChanged
         [out |-> NotChanged, first |-> first, ups |-> <<NotChanged>>]
    ELSE LET value == Head(ups)
             mapped == filter_callback(value)
         IN IF mapped.some
            THEN [out |-> Changed(mapped), first |-> FALSE, ups |-> <<Changed(value)>>]
            ELSE IF first
            THEN [out |-> Changed(None), first |-> FALSE, ups |-> <<Changed(value)>>]
            ELSE \* swallowed: next turn of the loop
                 LET r == FilterMap_poll(first, Tail(ups))
                 IN [r EXCEPT !.ups = <<Changed(value)>> \o @]

\* Signal::filter_map: first is true.
FilterMapInit ==
    /\ fm_first = TRUE
    /\ fm_ups = << >>
    /\ fm_out = NotChanged
    /\ fm_polls = 0
    /\ fm_upBefore = 0
    /\ fm_nChanged = 0
    /\ fm_nNone = 0
    /\ fm_noneLate = FALSE
    /\ fm_oneEach = TRUE
    /\ fm_fed = << >>
    /\ fm_outs = << >>

\* The owner of the node calls FilterMap::poll.
FilterMapPoll(ups) ==
    LET r   == FilterMap_poll(fm_first, ups)
        one == fm_oneEach /\ FedOne(r.ups)
    IN /\ fm_polls < MaxPolls
       /\ fm_first' = r.first
       /\ fm_ups' = r.ups
       /\ fm_out' = r.out
       /\ fm_polls' = fm_polls + 1
       /\ fm_upBefore' = fm_upBefore + ChangedCount(fm_ups)
       /\ fm_nChanged' = fm_nChanged + (IF IsChanged(r.out) THEN 1 ELSE 0)
       /\ fm_nNone' = fm_nNone + (IF r.out = Changed(None) THEN 1 ELSE 0)
       /\ fm_noneLate' = (fm_noneLate \/ (r.out = Changed(None) /\ fm_nChanged > 0))
       /\ fm_oneEach' = one
       /\ fm_fed' = IF one THEN Append(fm_fed, filter_callback(r.ups[1].value))
                     ELSE << >>
       /\ fm_outs' = IF one THEN Append(fm_outs, r.out) ELSE << >>
       /\ UNCHANGED <<m2vars, mdvars, flvars, muvars, mrvars, drvars, fdvars>>

FilterMapNext == \E ups \in Bursts : FilterMapPoll(ups)

\* --------------------------------------------------------------- Flatten
\* Receiver::poll on the cell of an inner signal: the pending value is taken.
inner_poll(pending) ==
    IF pending.some
    THEN [out |-> Changed(pending.value), pending |-> None]
    ELSE [out |-> NotChanged, pending |-> None]

\* A poll that polls the signal it held before it stores the new one.
Flatten_poll_old_inner(inner, so, cells) ==
    IF inner.some
    THEN LET p == inner_poll(cells[inner.value])
         IN [out    |-> p.out,
             inner  |-> IF IsChanged(so) THEN Some(so.value) ELSE inner,
             cells  |-> [cells EXCEPT ![inner.value] = p.pending],
             polled |-> <<inner.value>>]
    ELSE [out    |-> NotChanged,
          inner  |-> IF IsChanged(so) THEN Some(so.value) ELSE inner,
          cells  |-> cells,
          polled |-> << >>]

\* A poll that polls the new inner signal and forgets to store it.
Flatten_poll_keep_cached(inner, so, cells) ==
    IF IsChanged(so)
    THEN LET p == inner_poll(cells[so.value])
         IN [out    |-> p.out,
             inner  |-> IF inner.some THEN inner ELSE Some(so.value),
             cells  |-> [cells EXCEPT ![so.value] = p.pending],
             polled |-> <<so.value>>]
    ELSE IF inner.some
    THEN LET p == inner_poll(cells[inner.value])
         IN [out    |-> p.out,
             inner  |-> inner,
             cells  |-> [cells EXCEPT ![inner.value] = p.pending],
             polled |-> <<inner.value>>]
    ELSE [out |-> NotChanged, inner |-> inner, cells |-> cells, polled |-> << >>]

\* One call of Flatten::poll.  inner is the field before the call, so is what
\* the outer signal returns and cells holds the inner signals' cells.
Flatten_poll(inner, so, cells) ==
    IF IsChanged(so)
    THEN \* State::Changed(mut inner) => poll it, then store it
         LET p == inner_poll(cells[so.value])
         IN [out    |-> p.out,
             inner  |-> Some(so.value),
             cells  |-> [cells EXCEPT ![so.value] = p.pending],
             polled |-> <<so.value>>]
    ELSE IF inner.some
    THEN \* State::NotChanged, Some(ref mut inner) => inner.poll()
         LET p == inner_poll(cells[inner.value])
         IN [out    |-> p.out,
             inner  |-> inner,
             cells  |-> [cells EXCEPT ![inner.value] = p.pending],
             polled |-> <<inner.value>>]
    ELSE \* State::NotChanged, None => State::NotChanged
         [out |-> NotChanged, inner |-> inner, cells |-> cells, polled |-> << >>]

Options(S) == {None} \cup {Some(v) : v \in S}

\* Signal::flatten: no inner signal.
FlattenInit ==
    /\ fl_inner = None
    /\ fl_cells = << >>
    /\ fl_outer = NotPolled
    /\ fl_polled = << >>
    /\ fl_innerRes = NotPolled
    /\ fl_out = NotChanged
    /\ fl_polls = 0
    /\ fl_quiet = None

\* The owner of the node calls Flatten::poll and the outer signal returns
\* NotChanged.
FlattenPollSame ==
    LET r == Flatten_poll(fl_inner, NotChanged, fl_cells)
    IN /\ fl_polls < MaxPolls
       /\ fl_inner' = r.inner
       /\ fl_cells' = r.cells
       /\ fl_outer' = NotChanged
       /\ fl_polled' = r.polled
       /\ fl_innerRes' = IF r.polled = << >> THEN NotPolled ELSE r.out
       /\ fl_out' = r.out
       /\ fl_polls' = fl_polls + 1
       /\ UNCHANGED fl_quiet
       /\ UNCHANGED <<m2vars, mdvars, fmvars, muvars, mrvars, drvars, fdvars>>

\* The owner of the node calls Flatten::poll and the outer signal hands out a
\* new inner signal whose cell holds `pending`.
FlattenPollSwitch(pending) ==
    LET new == Len(fl_cells) + 1
        so  == Changed(new)
        r   == Flatten_poll(fl_inner, so, Append(fl_cells, pending))
    IN /\ fl_polls < MaxPolls
       /\ new <= MaxInner
       /\ fl_inner' = r.inner
       /\ fl_cells' = r.cells
       /\ fl_outer' = so
       /\ fl_polled' = r.polled
       /\ fl_innerRes' = IF r.polled = << >> THEN NotPolled ELSE r.out
       /\ fl_out' = r.out
       /\ fl_polls' = fl_polls + 1
       /\ fl_quiet' = IF pending.some THEN None ELSE Some(new)
       /\ UNCHANGED <<m2vars, mdvars, fmvars, muvars, mrvars, drvars, fdvars>>

\* Sender::set on the mutable variable behind inner signal i.
FlattenInnerSet(i, value) ==
    /\ fl_cells' = [fl_cells EXCEPT ![i] = Some(value)]
    /\ UNCHANGED <<fl_inner, fl_outer, fl_polled, fl_innerRes, fl_out, fl_polls,
                   fl_quiet>>
    /\ UNCHANGED <<m2vars, mdvars, fmvars, muvars, mrvars, drvars, fdvars>>

FlattenNext ==
    \/ FlattenPollSame
    \/ \E pending \in Options(Values) : FlattenPollSwitch(pending)
    \/ \E i \in DOMAIN fl_cells, value \in Values : FlattenInnerSet(i, value)

\* ------------------------------------------- unsync::mutable, Sender, Receiver
Tasks == 1..MaxTasks

\* The cell once its last Receiver is gone: the Rc is freed with its content.
Dropped == [value |-> None, task |-> None]

\* A set that keeps an unread value: the first write wins.
Sender_set_keep_first(inner, receivers, value) ==
    IF receivers > 0
    THEN [inner  |-> [value |-> IF inner.value.some THEN inner.value ELSE Some(value),
                      task  |-> None],
          notify |-> inner.task,
          result |-> [ok |-> TRUE, err |-> 0]]
    ELSE [inner |-> inner, notify |-> None, result |-> [ok |-> FALSE, err |-> value]]

\* A set on a strong reference: it succeeds whether a Receiver is left or not.
Sender_set_strong(inner, receivers, value) ==
    [inner  |-> [value |-> Some(value), task |-> None],
     notify |-> inner.task,
     result |-> [ok |-> TRUE, err |-> 0]]

\* A set that notifies the registered task and leaves it registered.
Sender_set_keep_task(inner, receivers, value) ==
    IF receivers > 0
    THEN [inner  |-> [value |-> Some(value), task |-> inner.task],
          notify |-> inner.task,
          result |-> [ok |-> TRUE, err |-> 0]]
    ELSE [inner |-> inner, notify |-> None, result |-> [ok |-> FALSE, err |-> value]]

\* Sender::set.  The Weak reference upgrades while a Receiver is alive; then
\* the value is stored and the registered task, if any, is taken and notified.
Sender_set(inner, receivers, value) ==
    IF receivers > 0
    THEN [inner  |-> [value |-> Some(value), task |-> None],
          notify |-> inner.task,
          result |-> [ok |-> TRUE, err |-> 0]]
    ELSE [inner |-> inner, notify |-> None, result |-> [ok |-> FALSE, err |-> value]]

\* A poll that reads the value and leaves it in the cell.
Receiver_poll_no_take(inner, task) ==
    IF inner.value.some
    THEN [inner |-> inner, out |-> Changed(inner.value.value)]
    ELSE [inner |-> [inner EXCEPT !.task = Some(task)], out |-> NotChanged]

\* A poll that registers its task only when no task is registered yet.
Receiver_poll_keep_waiter(inner, task) ==
    IF inner.value.some
    THEN [inner |-> [inner EXCEPT !.value = None], out |-> Changed(inner.value.value)]
    ELSE [inner |-> [inner EXCEPT !.task = IF @.some THEN @ ELSE Some(task)],
          out   |-> NotChanged]

\* A poll that hands out a copy of the value and registers its task.
Receiver_poll_copy_out(inner, task) ==
    IF inner.value.some
    THEN [inner |-> [inner EXCEPT !.task = Some(task)], out |-> Changed(inner.value.value)]
    ELSE [inner |-> [inner EXCEPT !.task = Some(task)], out |-> NotChanged]

\* A poll that takes the value and never registers its task.
Receiver_poll_no_register(inner, task) ==
    IF inner.value.some
    THEN [inner |-> [inner EXCEPT !.value = None], out |-> Changed(inner.value.value)]
    ELSE [inner |-> inner, out |-> NotChanged]

\* Receiver::poll, called by `task`: the value is taken, or the task is
\* registered.
Receiver_poll(inner, task) ==
    IF inner.value.some
    THEN [inner |-> [inner EXCEPT !.value = None], out |-> Changed(inner.value.value)]
    ELSE [inner |-> [inner EXCEPT !.task = Some(task)], out |-> NotChanged]

NoOp == [op |-> "none", value |-> 0, ok |-> TRUE, err |-> 0, out |-> NotChanged,
         task |-> 0, notify |-> None, writes |-> << >>, receivers |-> 0,
         waiters |-> {}]

\* The latest set or poll among the operations recorded so far.
PrevOf(last, prev) == IF last.op \in {"set", "poll"} THEN last ELSE prev

\* unsync::mutable(initial_value): one Receiver, the value pending, no task.
MutableInit ==
    /\ \E initial_value \in Values :
          /\ mu_inner = [value |-> Some(initial_value), task |-> None]
          /\ mu_writes = <<initial_value>>
    /\ mu_receivers = 1
    /\ mu_notified = [t \in Tasks |-> 0]
    /\ mu_nops = 0
    /\ mu_last = NoOp
    /\ mu_prev = NoOp
    /\ mu_waiters = {}
    /\ mu_taken = 0

\* The owner of the Sender calls set(value).
MutableSet(value) ==
    LET r == Sender_set(mu_inner, mu_receivers, value)
    IN /\ mu_nops < MaxOps
       /\ mu_inner' = r.inner
       /\ mu_notified' = IF r.notify.some
                          THEN [mu_notified EXCEPT ![r.notify.value] = @ + 1]
                          ELSE mu_notified
       /\ mu_nops' = mu_nops + 1
       /\ mu_prev' = PrevOf(mu_last, mu_prev)
       /\ mu_last' = [NoOp EXCEPT !.op = "set", !.value = value, !.ok = r.result.ok,
                                   !.err = r.result.err, !.notify = r.notify,
                                   !.writes = mu_writes, !.receivers = mu_receivers,
                                   !.waiters = mu_waiters]
       /\ mu_writes' = IF r.result.ok THEN Append(mu_writes, value) ELSE mu_writes
       /\ mu_waiters' = IF r.result.ok THEN {} ELSE mu_waiters
       /\ mu_taken' = IF r.result.ok THEN 0 ELSE mu_taken
       /\ UNCHANGED mu_receivers
       /\ UNCHANGED <<m2vars, mdvars, fmvars, flvars, mrvars, drvars, fdvars>>

\* Task `task` polls one of the live Receiver clones.
MutablePoll(task) ==
    LET r == Receiver_poll(mu_inner, task)
    IN /\ mu_nops < MaxOps
       /\ mu_receivers > 0
       /\ mu_inner' = r.inner
       /\ mu_nops' = mu_nops + 1
       /\ mu_prev' = PrevOf(mu_last, mu_prev)
       /\ mu_last' = [NoOp EXCEPT !.op = "poll", !.out = r.out, !.task = task,
                                   !.writes = mu_writes, !.receivers = mu_receivers,
                                   !.waiters = mu_waiters]
       /\ mu_writes' = << >>
       /\ mu_waiters' = IF IsChanged(r.out) THEN mu_waiters ELSE mu_waiters \cup {task}
       /\ mu_taken' = mu_taken + (IF IsChanged(r.out) THEN 1 ELSE 0)
       /\ UNCHANGED <<mu_receivers, mu_notified>>
       /\ UNCHANGED <<m2vars, mdvars, fmvars, flvars, mrvars, drvars, fdvars>>

\* Receiver::clone (derived): one more strong reference to the same cell.
MutableClone ==
    /\ mu_nops < MaxOps
    /\ mu_receivers > 0
    /\ mu_receivers < MaxClones
    /\ mu_receivers' = mu_receivers + 1
    /\ mu_nops' = mu_nops + 1
    /\ mu_prev' = PrevOf(mu_last, mu_prev)
    /\ mu_last' = [NoOp EXCEPT !.op = "clone", !.writes = mu_writes,
                                !.receivers = mu_receivers]
    /\ UNCHANGED <<mu_inner, mu_notified, mu_writes, mu_waiters, mu_taken>>
    /\ UNCHANGED <<m2vars, mdvars, fmvars, flvars, mrvars, drvars, fdvars>>

\* A Receiver clone is dropped; the cell goes with the last one.
MutableDrop ==
    /\ mu_nops < MaxOps
    /\ mu_receivers > 0
    /\ mu_receivers' = mu_receivers - 1
    /\ mu_inner' = IF mu_receivers = 1 THEN Dropped ELSE mu_inner
    /\ mu_writes' = IF mu_receivers = 1 THEN << >> ELSE mu_writes
    /\ mu_nops' = mu_nops + 1
    /\ mu_prev' = PrevOf(mu_last, mu_prev)
    /\ mu_last' = [NoOp EXCEPT !.op = "drop", !.writes = mu_writes,
                                !.receivers = mu_receivers]
    /\ mu_waiters' = IF mu_receivers = 1 THEN {} ELSE mu_waiters
    /\ UNCHANGED <<mu_notified, mu_taken>>
    /\ UNCHANGED <<m2vars, mdvars, fmvars, flvars, mrvars, drvars, fdvars>>

MutableNext ==
    \/ \E value \in Values : MutableSet(value)
    \/ \E task \in Tasks : MutablePoll(task)
    \/ MutableClone
    \/ MutableDrop

\* ---------------------------------------------------------------- map_rc!
\* An Always that hands out its value without taking it.
Always_poll_keep(value) ==
    IF value.some
    THEN [out |-> Changed(value.value), value |-> value]
    ELSE [out |-> NotChanged, value |-> None]

\* Always::poll: self.value.take(), so the stored value is handed out once.
Always_poll(value) ==
    IF value.some
    THEN [out |-> Changed(value.value), value |-> None]
    ELSE [out |-> NotChanged, value |-> None]

\* ::std::rc::Rc::new and the read through the pointer.
Rc_new(value) == [rc |-> value]
Rc_deref(rc) == rc.rc

\* Map::poll with the callback Rc::new: __internal_map_rc_new!(value).
Map_poll_rc(s) == IF IsChanged(s) THEN Changed(Rc_new(s.value)) ELSE NotChanged

\* The signal __internal_map2! nests for the first k sources,
\* map2(map2(.. map2(rc(v1), rc(v2), pair_clone) .., pair_clone), rc(vk),
\* pair_clone), polled once.  Map2_poll is handed what its signal2 returns
\* if polled; that source is consumed only when Map2_poll did poll it.
RECURSIVE Chain_poll(_, _, _, _)
Chain_poll(k, always, left, right) ==
    IF k = 1
    THEN LET a == Always_poll(always[1])
         IN [out    |-> Map_poll_rc(a.out),
             always |-> [always EXCEPT ![1] = a.value],
             left   |-> left,
             right  |-> right]
    ELSE LET c == Chain_poll(k - 1, always, left, right)
             a == Always_poll(c.always[k])
             r == Map2_poll(c.left[k], c.right[k], c.out, Map_poll_rc(a.out))
         IN [out    |-> r.out,
             always |-> IF Len(r.polled) = 2
                        THEN [c.always EXCEPT ![k] = a.value] ELSE c.always,
             left   |-> [c.left EXCEPT ![k] = r.left],
             right  |-> [c.right EXCEPT ![k] = r.right]]

\* The body of the macro call: the closure destructures the nested pair,
\* clones each Rc and evaluates f on the N names; f lists what it reads.
RECURSIVE map_rc_f(_, _)
map_rc_f(n, pair) ==
    IF n = 1 THEN <<Rc_deref(pair)>>
    ELSE Append(map_rc_f(n - 1, pair[1]), Rc_deref(pair[2]))

\* One poll of the signal map_rc! builds for n sources.
MapRc_poll(n, always, left, right) ==
    LET c == Chain_poll(n, always, left, right)
    IN [out    |-> IF IsChanged(c.out) THEN Changed(map_rc_f(n, c.out.value))
                   ELSE NotChanged,
        always |-> c.always,
        left   |-> c.left,
        right  |-> c.right]

\* always(v1), ..., always(vN) handed to the macro: every cache is empty.
MapRcInit ==
    /\ mr_n \in 1..MaxArity
    /\ mr_init \in [1..mr_n -> Values]
    /\ mr_always = [k \in 1..mr_n |-> Some(mr_init[k])]
    /\ mr_left = [k \in 1..mr_n |-> None]
    /\ mr_right = [k \in 1..mr_n |-> None]
    /\ mr_out = NotChanged
    /\ mr_polls = 0

\* The owner of the signal polls it.
MapRcPoll ==
    LET r == MapRc_poll(mr_n, mr_always, mr_left, mr_right)
    IN /\ mr_polls < MaxPolls
       /\ mr_always' = r.always
       /\ mr_left' = r.left
       /\ mr_right' = r.right
       /\ mr_out' = r.out
       /\ mr_polls' = mr_polls + 1
       /\ UNCHANGED <<mr_n, mr_init>>
       /\ UNCHANGED <<m2vars, mdvars, fmvars, flvars, muvars, drvars, fdvars>>

MapRcNext == MapRcPoll

\* ------------------------------------------- for_each, DropHandle, DropStream
\* The task the scheduler runs the driver in.
DriverTask == CHOOSE t \in Tasks : TRUE

\* The callback of the Map node between the Receiver and the stream adapter.
map_callback(value) == value + MaxVal

\* Map::poll over the Receiver: State::map applies the callback to a change.
Map_poll(inner) ==
    LET p == Receiver_poll(inner, DriverTask)
    IN [inner |-> p.inner,
        out   |-> IF IsChanged(p.out) THEN Changed(map_callback(p.out.value))
                  ELSE NotChanged]

\* SignalStream::poll: Changed(value) is Ready(Some(value)), an item;
\* NotChanged is NotReady.
SignalStream_poll(inner) ==
    LET s == Map_poll(inner)
    IN [res    |-> IF IsChanged(s.out) THEN "item" ELSE "notready",
        value  |-> s.out.value,
        inner  |-> s.inner,
        polled |-> 1]

\* A guarded stream that never reads the flag.
DropStream_poll_ignore_done(done, inner) == SignalStream_poll(inner)

\* A guarded stream that polls the wrapped stream and then reads the flag.
DropStream_poll_late_check(done, inner) ==
    LET s == SignalStream_poll(inner)
    IN IF done THEN [res |-> "end", value |-> 0, inner |-> s.inner, polled |-> 1]
       ELSE s

\* A guarded stream that lets an item through before it reads the flag.
DropStream_poll_item_first(done, inner) ==
    IF inner.value.some THEN SignalStream_poll(inner)
    ELSE IF done THEN [res |-> "end", value |-> 0, inner |-> inner, polled |-> 0]
    ELSE SignalStream_poll(inner)

\* DropStream::poll: Ready(None), the end of the stream, once the flag is
\* set; the wrapped stream is polled otherwise.
DropStream_poll(done, inner) ==
    IF done
    THEN [res |-> "end", value |-> 0, inner |-> inner, polled |-> 0]
    ELSE SignalStream_poll(inner)

\* A stop that also notifies the task.
DropHandle_stop_wake(done, task) ==
    [done |-> TRUE, task |-> IF task = "parked" THEN "queued" ELSE task]

\* DropHandle::stop: self.done.set(true), and nothing else.
DropHandle_stop(done, task) == [done |-> TRUE, task |-> task]

\* One poll of the future stream.for_each(callback) by the scheduler: the
\* stream is polled; an item is handed to the callback and the stream is
\* polled again; the end of the stream completes the future; NotReady parks
\* the task.
RECURSIVE ForEach_poll(_, _)
ForEach_poll(done, inner) ==
    LET s == DropStream_poll(done, inner)
    IN IF s.res = "item"
       THEN LET rest == ForEach_poll(done, s.inner)
            IN [inner  |-> rest.inner,
                calls  |-> <<s.value>> \o rest.calls,
                polls  |-> s.polled + rest.polls,
                result |-> rest.result]
       ELSE [inner  |-> s.inner,
             calls  |-> << >>,
             polls  |-> s.polled,
             result |-> IF s.res = "end" THEN "ready" ELSE "notready"]

DriverNoOp == [op |-> "none", value |-> 0, ok |-> TRUE, notify |-> None,
               calls |-> << >>, polls |-> 0, result |-> "none"]

\* mutable(1) built and handed to nobody yet; no driver.
DriverInit ==
    /\ dr_inner = [value |-> Some(1), task |-> None]
    /\ dr_receivers = 1
    /\ dr_done = FALSE
    /\ dr_handle = "none"
    /\ dr_task = "none"
    /\ dr_calls = << >>
    /\ dr_polls = 0
    /\ dr_runs = 0
    /\ dr_nsets = 0
    /\ dr_nops = 0
    /\ dr_last = DriverNoOp
    /\ dr_lastSet = 1
    /\ dr_owed = FALSE
    /\ dr_stopRuns = -1
    /\ dr_stopAt = "none"

\* receiver.map(map_callback).for_each(callback): the flag is created false,
\* the future is handed to the scheduler and the handle is returned.
DriverForEach ==
    /\ dr_task = "none"
    /\ dr_done' = FALSE
    /\ dr_task' = "queued"
    /\ dr_handle' = "held"
    /\ dr_nops' = dr_nops + 1
    /\ dr_last' = [DriverNoOp EXCEPT !.op = "for_each"]
    /\ UNCHANGED <<dr_inner, dr_receivers, dr_calls, dr_polls, dr_runs, dr_nsets,
                   dr_lastSet, dr_owed, dr_stopRuns, dr_stopAt>>
    /\ UNCHANGED <<m2vars, mdvars, fmvars, flvars, muvars, mrvars, fdvars>>

\* sender.set(value): the task taken from the cell is notified, which makes
\* the scheduler run it again if it is parked.
DriverSet(value) ==
    LET r == Sender_set(dr_inner, dr_receivers, value)
    IN /\ dr_nsets < MaxSets
       /\ dr_inner' = r.inner
       /\ dr_task' = IF r.notify = Some(DriverTask) /\ dr_task = "parked"
                     THEN "queued" ELSE dr_task
       /\ dr_nsets' = dr_nsets + 1
       /\ dr_nops' = dr_nops + 1
       /\ dr_last' = [DriverNoOp EXCEPT !.op = "set", !.value = value,
                                         !.ok = r.result.ok, !.notify = r.notify]
       /\ dr_lastSet' = IF r.result.ok THEN value ELSE dr_lastSet
       /\ dr_owed' = (dr_owed \/ (r.result.ok /\ dr_task = "parked"))
       /\ UNCHANGED <<dr_receivers, dr_done, dr_handle, dr_calls, dr_polls, dr_runs,
                      dr_stopRuns, dr_stopAt>>
       /\ UNCHANGED <<m2vars, mdvars, fmvars, flvars, muvars, mrvars, fdvars>>

\* handle.stop(): consumes the handle.
DriverStop ==
    LET r == DropHandle_stop(dr_done, dr_task)
    IN /\ dr_handle = "held"
       /\ dr_handle' = "used"
       /\ dr_done' = r.done
       /\ dr_task' = r.task
       /\ dr_nops' = dr_nops + 1
       /\ dr_last' = [DriverNoOp EXCEPT !.op = "stop"]
       /\ dr_stopRuns' = dr_runs
       /\ dr_stopAt' = dr_task
       /\ UNCHANGED <<dr_inner, dr_receivers, dr_calls, dr_polls, dr_runs, dr_nsets,
                      dr_lastSet, dr_owed>>
       /\ UNCHANGED <<m2vars, mdvars, fmvars, flvars, muvars, mrvars, fdvars>>

\* The scheduler runs the queued task: one poll of the future.  A completed
\* future is not polled again; the scheduler may free it at once, and the
\* Receiver it owns with it, or keep it.
DriverRun ==
    LET r == ForEach_poll(dr_done, dr_inner)
    IN /\ dr_task = "queued"
       /\ dr_task' = IF r.result = "ready" THEN "finished" ELSE "parked"
       /\ \E freed \in BOOLEAN :
             /\ freed => r.result = "ready"
             /\ dr_receivers' = IF freed THEN 0 ELSE dr_receivers
             /\ dr_inner' = IF freed THEN Dropped ELSE r.inner
       /\ dr_calls' = dr_calls \o r.calls
       /\ dr_polls' = dr_polls + r.polls
       /\ dr_runs' = dr_runs + 1
       /\ dr_nops' = dr_nops + 1
       /\ dr_last' = [DriverNoOp EXCEPT !.op = "run", !.calls = r.calls,
                                         !.polls = r.polls, !.result = r.result]
       /\ dr_owed' = IF r.calls # << >> /\ Last(r.calls) = map_callback(dr_lastSet)
                     THEN FALSE ELSE dr_owed
       /\ UNCHANGED <<dr_done, dr_handle, dr_nsets, dr_lastSet, dr_stopRuns, dr_stopAt>>
       /\ UNCHANGED <<m2vars, mdvars, fmvars, flvars, muvars, mrvars, fdvars>>

DriverNext ==
    \/ DriverForEach
    \/ \E value \in Values : DriverSet(value)
    \/ DriverStop
    \/ DriverRun

\* ------------------------------------------------- for_each over Flatten
\* One poll of Flatten over the Receiver of the outer variable, made by the
\* driver task.  The outer Receiver registers the task only when it returns
\* NotChanged, and so does the inner Receiver that Flatten polls.
FlattenChain_poll(outer, inner, cells, itask) ==
    LET o  == Receiver_poll(outer, DriverTask)
        r  == Flatten_poll(inner, o.out, cells)
        id == r.polled[1]
        ip == Receiver_poll([value |-> cells[id], task |-> itask[id]], DriverTask)
    IN [out    |-> r.out,
        outer  |-> o.inner,
        inner  |-> r.inner,
        cells  |-> r.cells,
        itask  |-> IF r.polled = << >> THEN itask
                   ELSE [itask EXCEPT ![id] = ip.inner.task],
        polled |-> r.polled]

\* One poll of stream.for_each(callback) over SignalStream over that chain,
\* the cancellation flag being unset: an item goes to the callback and the
\* stream is polled again; NotReady parks the task.
RECURSIVE FlattenForEach_poll(_, _, _, _)
FlattenForEach_poll(outer, inner, cells, itask) ==
    LET s == FlattenChain_poll(outer, inner, cells, itask)
    IN IF IsChanged(s.out)
       THEN LET rest == FlattenForEach_poll(s.outer, s.inner, s.cells, s.itask)
            IN [rest EXCEPT !.calls = <<s.out.value>> \o @,
                            !.polled = s.polled \o @]
       ELSE [outer |-> s.outer, inner |-> s.inner, cells |-> s.cells,
             itask |-> s.itask, calls |-> << >>, polled |-> s.polled]

FdNoOp == [op |-> "none", ok |-> TRUE, notify |-> None, calls |-> << >>,
           polled |-> << >>]

\* mutable(inner 1), inner 1 being the Receiver of mutable(1); no driver yet.
FlattenDriverInit ==
    /\ fd_outer = [value |-> Some(1), task |-> None]
    /\ fd_cells = <<Some(1)>>
    /\ fd_itask = <<None>>
    /\ fd_inner = None
    /\ fd_task = "none"
    /\ fd_nsets = 0
    /\ fd_nops = 0
    /\ fd_last = FdNoOp
    /\ fd_owed = FALSE

\* receiver.flatten().for_each(callback): the task is handed to the scheduler.
FlattenDriverForEach ==
    /\ fd_task = "none"
    /\ fd_task' = "queued"
    /\ fd_nops' = fd_nops + 1
    /\ fd_last' = [FdNoOp EXCEPT !.op = "for_each"]
    /\ UNCHANGED <<fd_outer, fd_cells, fd_itask, fd_inner, fd_nsets, fd_owed>>
    /\ UNCHANGED <<m2vars, mdvars, fmvars, flvars, muvars, mrvars, drvars>>

\* sender.set(inner) on the outer variable: a new inner signal, the Receiver
\* of a variable whose cell holds `pending` (nothing if a clone of that
\* Receiver was polled before).
FlattenDriverOuterSet(pending) ==
    LET id == Len(fd_cells) + 1
        r  == Sender_set(fd_outer, 1, id)
    IN /\ fd_nsets < MaxSets
       /\ id <= MaxInner
       /\ fd_outer' = r.inner
       /\ fd_cells' = Append(fd_cells, pending)
       /\ fd_itask' = Append(fd_itask, None)
       /\ fd_task' = IF r.notify = Some(DriverTask) /\ fd_task = "parked"
                     THEN "queued" ELSE fd_task
       /\ fd_nsets' = fd_nsets + 1
       /\ fd_nops' = fd_nops + 1
       /\ fd_last' = [FdNoOp EXCEPT !.op = "outer_set", !.ok = r.result.ok,
                                     !.notify = r.notify]
       /\ fd_owed' = (fd_owed \/ (r.result.ok /\ fd_task = "parked"))
       /\ UNCHANGED fd_inner
       /\ UNCHANGED <<m2vars, mdvars, fmvars, flvars, muvars, mrvars, drvars>>

\* sender.set(value) on the variable behind inner signal i, while a Receiver
\* of it is alive: in the outer cell or in the Flatten node.
FlattenDriverInnerSet(i, value) ==
    LET r == Sender_set([value |-> fd_cells[i], task |-> fd_itask[i]], 1, value)
    IN /\ fd_nsets < MaxSets
       /\ fd_outer.value = Some(i) \/ fd_inner = Some(i)
       /\ fd_cells' = [fd_cells EXCEPT ![i] = r.inner.value]
       /\ fd_itask' = [fd_itask EXCEPT ![i] = r.inner.task]
       /\ fd_task' = IF r.notify = Some(DriverTask) /\ fd_task = "parked"
                     THEN "queued" ELSE fd_task
       /\ fd_nsets' = fd_nsets + 1
       /\ fd_nops' = fd_nops + 1
       /\ fd_last' = [FdNoOp EXCEPT !.op = "inner_set", !.ok = r.result.ok,
                                     !.notify = r.notify]
       /\ UNCHANGED <<fd_outer, fd_inner, fd_owed>>
       /\ UNCHANGED <<m2vars, mdvars, fmvars, flvars, muvars, mrvars, drvars>>

\* The scheduler runs the queued task: one poll of the future, which parks
\* the task when the chain returns NotChanged.
FlattenDriverRun ==
    LET r == FlattenForEach_poll(fd_outer, fd_inner, fd_cells, fd_itask)
    IN /\ fd_task = "queued"
       /\ fd_task' = "parked"
       /\ fd_outer' = r.outer
       /\ fd_inner' = r.inner
       /\ fd_cells' = r.cells
       /\ fd_itask' = r.itask
       /\ fd_nops' = fd_nops + 1
       /\ fd_last' = [FdNoOp EXCEPT !.op = "run", !.calls = r.calls,
                                     !.polled = r.polled]
       /\ fd_owed' = IF \E k \in DOMAIN r.polled : r.polled[k] = Len(fd_cells)
                     THEN FALSE ELSE fd_owed
       /\ UNCHANGED fd_nsets
       /\ UNCHANGED <<m2vars, mdvars, fmvars, flvars, muvars, mrvars, drvars>>

FlattenDriverNext ==
    \/ FlattenDriverForEach
    \/ \E pending \in Options(Values) : FlattenDriverOuterSet(pending)
    \/ \E i \in DOMAIN fd_cells, value \in Values : FlattenDriverInnerSet(i, value)
    \/ FlattenDriverRun

\* Every node freshly built.
Init ==
    /\ FlattenDriverInit
    /\ DriverInit
    /\ MapRcInit
    /\ Map2Init
    /\ MapDedupeInit
    /\ FilterMapInit
    /\ FlattenInit
    /\ MutableInit

\* A specification exercises one kind of node; the nodes it leaves alone are
\* built in one way only.
OneCallback == md_callback = "identity"
OneInitial == mu_writes = <<1>>
OneChain == mr_n = 1 /\ mr_init = <<1>>
InitCombinator == Init /\ OneCallback /\ OneInitial /\ OneChain
InitMapDedupe == Init /\ OneInitial /\ OneChain
InitMutable == Init /\ OneCallback /\ OneChain
InitMapRc == Init /\ OneCallback /\ OneInitial

\* ----------------------------------------------------- claims on Map2
SpecMap2 == InitCombinator /\ [][Map2Next]_vars

\* C1 (as stated): every call of Map2.poll polls both upstream signals exactly
\* once, the left one before the right one, whatever they return and whatever
\* is cached.
C1_PollsBothEveryCall ==
    m2_polls > 0 => m2_polled = <<"signal1", "signal2">>

\* C1 (amended): every call of Map2.poll polls the left upstream exactly once
\* and first; it then polls the right upstream exactly once, except when the
\* left upstream returned NotChanged and no left value is cached: in that case
\* the right upstream is not polled in that call.
C1_PollsLeftThenRightUnlessNoLeft ==
    m2_polls > 0 =>
        m2_polled = IF ~IsChanged(m2_res1) /\ ~m2_left.some
                    THEN <<"signal1">>
                    ELSE <<"signal1", "signal2">>

\* A call, not the first one, in which the left upstream returned NotChanged
\* with nothing cached and the right upstream was left alone.
C1_Witness ==
    /\ m2_polls > 1
    /\ ~IsChanged(m2_res1)
    /\ ~m2_left.some
    /\ m2_polled = <<"signal1">>

\* C2: the result of Map2.poll is Changed(f(l, r)) exactly when a side
\* returned Changed in this call and both sides have a value, l and r being the
\* most recently observed left and right values; otherwise it is NotChanged.
\* A left value returned as Changed is stored even when the output is
\* NotChanged, and a right value returned as Changed is stored.
C2_DecisionTable ==
    m2_polls > 0 =>
        /\ m2_out = IF /\ IsChanged(m2_res1) \/ IsChanged(m2_res2)
                       /\ m2_seen1.some
                       /\ m2_seen2.some
                    THEN Changed(<<m2_seen1.value, m2_seen2.value>>)
                    ELSE NotChanged
        /\ IsChanged(m2_res1) => m2_left = Some(m2_res1.value)
        /\ IsChanged(m2_res2) => m2_right = Some(m2_res2.value)

\* The right side alone changed and is combined with an older left value that
\* differs from it, after the left value was stored on a NotChanged output.
C2_Witness ==
    /\ m2_polls > 2
    /\ ~IsChanged(m2_res1)
    /\ IsChanged(m2_res2)
    /\ IsChanged(m2_out)
    /\ m2_out.value[1] # m2_out.value[2]
    /\ m2_nChanged = 1

\* C3: over any run of polls, the number of Changed outputs equals the number
\* of polls in which a side was Changed and both sides had a value.
C3_NoUpdateDropped ==
    m2_nChanged = m2_nExpected

\* A full run with some polls answered Changed and some not.
C3_Witness ==
    /\ m2_polls = MaxPolls
    /\ m2_nChanged >= 2
    /\ m2_nChanged < m2_polls - 1

\* ------------------------------------------------ claims on MapDedupe
SpecMapDedupe == InitMapDedupe /\ [][MapDedupeNext]_vars

\* C4: when the upstream feeds one value v to a call, MapDedupe.poll returns
\* Changed(f(v)) exactly when v differs from the input of the latest Changed
\* output (or there is none yet) and NotChanged otherwise; the inputs, not the
\* outputs, are compared.  Inputs 1,1,2,2,2,3 under the identity give
\* Changed(1), NotChanged, Changed(2), NotChanged, NotChanged, Changed(3).
C4_DedupeOnInput ==
    /\ (md_polls > 0 /\ FedOne(md_ups)) =>
           md_out = IF ~md_emitBefore.some \/ md_emitBefore.value # md_ups[1].value
                    THEN Changed(dedupe_callback(md_callback, md_ups[1].value))
                    ELSE NotChanged
    /\ (md_callback = "identity" /\ md_fed = <<1, 1, 2, 2, 2, 3>>) =>
           md_outs = <<Changed(1), NotChanged, Changed(2), NotChanged, NotChanged,
                       Changed(3)>>

\* The run of the example: six calls fed 1,1,2,2,2,3 under the identity.
C4_Witness ==
    /\ md_callback = "identity"
    /\ md_fed = <<1, 1, 2, 2, 2, 3>>
    /\ Len(md_outs) = Len(md_fed)
    /\ md_out = Changed(3)

\* ------------------------------------------------ claims on FilterMap
SpecFilterMap == InitCombinator /\ [][FilterMapNext]_vars

\* C5: over the life of a FilterMap node Changed(None) is returned at most
\* once and only when the node has returned no Changed before; every upstream
\* value the callback maps to Some(out) is returned as Changed(Some(out));
\* every other rejected value is swallowed.  Callback results None, None,
\* Some(5), None fed one per call give Changed(None), NotChanged,
\* Changed(Some(5)), NotChanged.
C5_OneInitialNone ==
    /\ fm_nNone <= 1
    /\ ~fm_noneLate
    /\ \A i \in DOMAIN fm_ups :
          IsChanged(fm_ups[i]) =>
             LET mapped == filter_callback(fm_ups[i].value)
             IN IF mapped.some
                THEN i = Len(fm_ups) /\ fm_out = Changed(mapped)
                ELSE \/ i = Len(fm_ups) /\ fm_out = Changed(None) /\ fm_nChanged = 1
                     \/ i < Len(fm_ups) /\ fm_out # Changed(None)
    /\ fm_fed = <<None, None, Some(5), None>> =>
          fm_outs = <<Changed(None), NotChanged, Changed(Some(5)), NotChanged>>

\* The run of the example: four calls fed values with the callback results
\* None, None, Some(5), None.
C5_Witness ==
    /\ fm_fed = <<None, None, Some(5), None>>
    /\ Len(fm_outs) = Len(fm_fed)
    /\ fm_nNone = 1
    /\ fm_nChanged = 2

\* C6 (as stated): the first poll of a FilterMap node always returns a Changed
\* result, never NotChanged.
C6_FirstPollChanged ==
    fm_polls = 1 => IsChanged(fm_out)

\* C6 (amended): as long as the upstream has handed out no value before, a
\* poll of a FilterMap node returns a Changed result exactly when the upstream
\* returns Changed in that poll: the first poll returns NotChanged when the
\* upstream does, and the initial Changed then comes with the first value.
C6_FirstValueChanged ==
    (fm_polls > 0 /\ fm_upBefore = 0) =>
        /\ IsChanged(fm_out) <=> IsChanged(fm_ups[1])
        /\ IsChanged(fm_out) => Len(fm_ups) = 1

\* The first poll returned NotChanged and a later poll takes the first value,
\* which the callback rejects.
C6_Witness ==
    /\ fm_polls > 1
    /\ fm_upBefore = 0
    /\ fm_out = Changed(None)

\* -------------------------------------------------- claims on Flatten
SpecFlatten == InitCombinator /\ [][FlattenNext]_vars

\* C7: when the outer signal hands out an inner signal whose first poll is
\* NotChanged, Flatten.poll returns NotChanged in that call; in a later call
\* (the outer signal returning NotChanged) Flatten returns Changed(v) only when
\* that inner signal is polled in the call and returns Changed(v).
C7_NoEmissionOnSwitch ==
    (fl_polls > 0 /\ fl_quiet.some) =>
        /\ IsChanged(fl_outer) => fl_out = NotChanged
        /\ IsChanged(fl_out) =>
               /\ fl_polled = <<fl_quiet.value>>
               /\ fl_innerRes = fl_out

\* A call after the switch in which the inner signal that was silent at first
\* returns a value, while the inner signal it replaced holds a value too.
C7_Witness ==
    /\ fl_polls > 2
    /\ ~IsChanged(fl_outer)
    /\ fl_quiet = Some(2)
    /\ fl_inner = fl_quiet
    /\ fl_cells[1].some
    /\ IsChanged(fl_out)
    /\ fl_out.value # fl_cells[1].value

\* ------------------------------------- claims on the mutable variable
SpecMutable == InitMutable /\ [][MutableNext]_vars

\* C8: with a live Receiver, the first poll after a successful set(x) returns
\* Changed(x), and a poll that follows a poll with no set in between returns
\* NotChanged (Receiver clones may be made and dropped in between).
C8_SetPollRoundTrip ==
    mu_last.op = "poll" =>
        /\ (mu_prev.op = "set" /\ mu_prev.ok) => mu_last.out = Changed(mu_prev.value)
        /\ mu_prev.op = "poll" => mu_last.out = NotChanged

\* set(x), a poll and a second poll right after it, all after the initial
\* value was read.
C8_Witness ==
    /\ mu_nops > 3
    /\ mu_last.op = "poll"
    /\ mu_prev.op = "poll"
    /\ IsChanged(mu_prev.out)
    /\ mu_last.out = NotChanged

\* C9: the cell holds at most one pending value, the last one written: after
\* any run of set calls with no poll in between (sets made before the initial
\* value was read included) the next poll returns Changed of the last value
\* written, and a poll with no write before it returns NotChanged, so that an
\* overwritten value is never returned.
C9_LastWriteWins ==
    /\ mu_receivers > 0 =>
           mu_inner.value = IF mu_writes = << >> THEN None ELSE Some(Last(mu_writes))
    /\ mu_last.op = "poll" =>
           mu_last.out = IF mu_last.writes = << >> THEN NotChanged
                         ELSE Changed(Last(mu_last.writes))

\* A poll after two sets of different values made before the initial value was
\* read.
C9_Witness ==
    /\ mu_last.op = "poll"
    /\ Len(mu_last.writes) = 3
    /\ mu_last.writes[1] # mu_last.writes[2]
    /\ mu_last.writes[2] # mu_last.writes[3]
    /\ mu_last.writes[1] # mu_last.writes[3]
    /\ IsChanged(mu_last.out)

\* C10: Sender.set(value) returns the error carrying the value back, notifies
\* no task and changes nothing exactly when every Receiver clone has been
\* dropped; while a Receiver clone is alive it succeeds.
C10_SetFailsIffNoReceiver ==
    [][(mu_nops' = mu_nops + 1 /\ mu_last'.op = "set") =>
          /\ mu_last'.ok <=> mu_receivers > 0
          /\ ~mu_last'.ok =>
                /\ mu_last'.err = mu_last'.value
                /\ mu_last'.notify = None
                /\ UNCHANGED <<mu_inner, mu_receivers, mu_notified, mu_writes>>
          /\ mu_last'.ok => mu_inner'.value = Some(mu_last'.value)]_vars

\* A set that fails after a set that succeeded and the drop of both Receiver
\* clones.
C10_Witness ==
    /\ mu_last.op = "set"
    /\ ~mu_last.ok
    /\ mu_last.err = mu_last.value
    /\ mu_receivers = 0
    /\ mu_prev.op = "set"
    /\ mu_prev.ok
    /\ mu_prev.receivers = MaxClones

\* C11: a successful set wakes a task exactly when a waiter is registered at
\* that moment, that is when the latest set or poll before it is a poll that
\* returned NotChanged; it clears the registration and notifies that task once,
\* so that a second set with no poll in between wakes no task; with no waiter
\* the set changes the pending value only.
C11_SetWakesRegisteredWaiter ==
    [][(mu_nops' = mu_nops + 1 /\ mu_last'.op = "set" /\ mu_last'.ok) =>
          LET before == PrevOf(mu_last, mu_prev)
              waiter == IF before.op = "poll" /\ before.out = NotChanged
                        THEN Some(before.task) ELSE None
          IN /\ mu_last'.notify = waiter
             /\ mu_inner.task = waiter
             /\ mu_inner' = [value |-> Some(mu_last'.value), task |-> None]
             /\ mu_notified' = [t \in Tasks |->
                                  IF waiter = Some(t) THEN mu_notified[t] + 1
                                  ELSE mu_notified[t]]
             /\ UNCHANGED mu_receivers]_vars

\* A second set right after a set that woke the waiter: the task has been
\* notified once.
C11_Witness ==
    /\ mu_last.op = "set"
    /\ mu_last.ok
    /\ mu_last.notify = None
    /\ mu_prev.op = "set"
    /\ mu_prev.notify.some
    /\ mu_notified[mu_prev.notify.value] = 1

\* C20: the cell tracks one waiter: a poll that finds no value registers the
\* polling task over any earlier registration, so that after several tasks
\* were answered NotChanged the next successful set notifies the task that
\* polled last and no other task.
C20_OnlyLastPollerWoken ==
    [][/\ (mu_nops' = mu_nops + 1 /\ mu_last'.op = "poll" /\ ~IsChanged(mu_last'.out)) =>
             mu_inner'.task = Some(mu_last'.task)
       /\ (mu_nops' = mu_nops + 1 /\ mu_last'.op = "set" /\ mu_last'.ok
             /\ mu_waiters # {}) =>
             \E t \in mu_waiters :
                 /\ t = PrevOf(mu_last, mu_prev).task
                 /\ mu_notified' = [mu_notified EXCEPT ![t] = @ + 1]]_vars

\* Two tasks were answered NotChanged, then a set notified one of them.
C20_Witness ==
    /\ mu_last.op = "set"
    /\ mu_last.ok
    /\ Cardinality(mu_last.waiters) = 2
    /\ mu_last.notify.some
    /\ \E t \in Tasks : mu_notified[t] = 0

\* ------------------------------- claims on the loops of MapDedupe, FilterMap
\* A run polls one of the two looping nodes.
LoopsNext ==
    \/ fm_polls = 0 /\ MapDedupeNext
    \/ md_polls = 0 /\ FilterMapNext

SpecLoops == InitMapDedupe /\ [][LoopsNext]_vars

\* C18: MapDedupe.poll and FilterMap.poll poll their upstream again in the
\* same call while values are swallowed (a duplicate; a rejected value after
\* the first emission): every upstream answer of a call but the last one is a
\* swallowed value, the last one is NotChanged or a value that is emitted, and
\* the call returns NotChanged exactly when that last answer is NotChanged.
C18_LoopUntilTerminal ==
    /\ md_polls > 0 =>
          /\ md_out = NotChanged <=> Last(md_ups) = NotChanged
          /\ \A i \in 1..(Len(md_ups) - 1) :
                /\ IsChanged(md_ups[i])
                /\ md_emitBefore = Some(md_ups[i].value)
          /\ IsChanged(Last(md_ups)) => md_emitBefore # Some(Last(md_ups).value)
    /\ fm_polls > 0 =>
          /\ fm_out = NotChanged <=> Last(fm_ups) = NotChanged
          /\ \A i \in 1..(Len(fm_ups) - 1) :
                /\ IsChanged(fm_ups[i])
                /\ ~filter_callback(fm_ups[i].value).some
                /\ fm_upBefore > 0
          /\ IsChanged(Last(fm_ups)) =>
                \/ filter_callback(Last(fm_ups).value).some
                \/ fm_upBefore = 0 /\ Len(fm_ups) = 1

\* A MapDedupe call that drops two duplicates in a row and then gets
\* NotChanged from the third upstream poll.
C18_Witness ==
    /\ md_polls > 1
    /\ Len(md_ups) = 3
    /\ IsChanged(md_ups[2])
    /\ md_out = NotChanged

\* A FilterMap call that drops a rejected value and emits the one after it.
C18_WitnessFilterMap ==
    /\ fm_polls > 1
    /\ Len(fm_ups) = 2
    /\ IsChanged(fm_out)

\* C19: when the outer signal returns Changed(inner), Flatten.poll stores the
\* new inner signal and polls it exactly once in that call, and the inner
\* signal it replaces is never polled again; when the outer signal returns
\* NotChanged the stored inner signal is polled once if there is one, and
\* NotChanged is returned with no inner poll if none was ever received.
C19_PollsCurrentInnerOnce ==
    fl_polls > 0 =>
        /\ IsChanged(fl_outer) =>
              /\ fl_inner = Some(fl_outer.value)
              /\ fl_polled = <<fl_outer.value>>
        /\ (~IsChanged(fl_outer) /\ fl_inner.some) => fl_polled = <<fl_inner.value>>
        /\ (~IsChanged(fl_outer) /\ ~fl_inner.some) =>
              /\ fl_polled = << >>
              /\ fl_out = NotChanged
              /\ fl_cells = << >>
        /\ fl_polled # << >> =>
              /\ fl_polled[1] = Len(fl_cells)
              /\ fl_out = fl_innerRes

\* The outer signal returned NotChanged after a second switch while the
\* replaced inner signal holds a value: the new one is polled.
C19_Witness ==
    /\ fl_polls > 2
    /\ ~IsChanged(fl_outer)
    /\ Len(fl_cells) = 2
    /\ fl_cells[1].some
    /\ fl_polled = <<2>>

\* --------------------------------------------------------- claims on map_rc!
SpecMapRc == InitMapRc /\ [][MapRcNext]_vars

\* C17: the signal map_rc! builds over N sources always(v1), ..., always(vN)
\* returns Changed(f(v1, ..., vN)) to its first poll, with every vk in its
\* own position, and NotChanged to every later poll.
C17_OnceThenNotChanged ==
    /\ mr_polls = 1 => IsChanged(mr_out) /\ mr_out.value = mr_init
    /\ mr_polls > 1 => ~IsChanged(mr_out)

\* Five sources with different values, polled twice.
C17_Witness ==
    /\ mr_n = 5
    /\ mr_init[1] # mr_init[2]
    /\ mr_init[4] # mr_init[5]
    /\ mr_polls = 2
    /\ ~IsChanged(mr_out)

\* ------------------------------------------------------ claims on for_each
SpecDriver == InitCombinator /\ [][DriverNext]_vars

\* The scheduler is fair to a task it has queued: it runs it.
SpecDriverFair == InitCombinator /\ [][DriverNext]_vars /\ WF_vars(DriverRun)

\* C12: when the driver task is parked and a Sender.set succeeds, the task is
\* the one notified and it is queued again; a run of the task with the flag
\* unset polls the chain, and hands the callback the value derived from the
\* latest set if the cell holds one; and under a fair scheduler a value that
\* woke the parked task is eventually superseded by the delivery of the
\* latest value to the callback, unless stop() is called.
C12_SetWakesParkedDriver ==
    /\ [][(dr_nops' = dr_nops + 1 /\ dr_last'.op = "set" /\ dr_last'.ok
              /\ dr_task = "parked") =>
             /\ dr_last'.notify = Some(DriverTask)
             /\ dr_task' = "queued"]_vars
    /\ [][(dr_nops' = dr_nops + 1 /\ dr_last'.op = "run" /\ ~dr_done) =>
             /\ dr_polls' > dr_polls
             /\ dr_inner.value.some =>
                   dr_last'.calls = <<map_callback(dr_lastSet)>>]_vars
    /\ (dr_owed ~> (~dr_owed \/ dr_done))

\* The task was parked, two sets followed, and the callback got the value of
\* the second one.
C12_Witness ==
    /\ dr_last.op = "run"
    /\ ~dr_done
    /\ dr_runs = 2
    /\ dr_nsets = 2
    /\ Len(dr_calls) = 2
    /\ dr_calls[2] = map_callback(dr_lastSet)
    /\ dr_task = "parked"

\* C13: the flag is false at first; once true it stays true; and a poll of
\* the guarded stream made while it is true reports the end of the stream
\* and leaves the wrapped stream unpolled, the pending value in the cell.
C13_StopIsPermanent ==
    /\ ~dr_done
    /\ [][dr_done => dr_done']_vars
    /\ [][(dr_nops' = dr_nops + 1 /\ dr_last'.op = "run" /\ dr_done) =>
             /\ dr_last'.result = "ready"
             /\ dr_polls' = dr_polls
             /\ dr_receivers' = 1 => dr_inner' = dr_inner]_vars

\* stop() was called after the driver had run, a value was set, and the
\* guarded stream was polled with that value pending.
C13_Witness ==
    /\ dr_last.op = "run"
    /\ dr_done
    /\ dr_stopRuns > 0
    /\ dr_receivers = 1
    /\ dr_inner.value.some

\* C14: from the call of stop() on, the callback is not invoked: no step
\* taken with the flag set adds a call.
C14_NoCallbackAfterStop ==
    [][dr_done => dr_calls' = dr_calls]_vars

\* A set that succeeds after the stopped driver has ended, with a callback
\* invocation made before the stop.
C14_Witness ==
    /\ dr_done
    /\ dr_task = "finished"
    /\ dr_last.op = "set"
    /\ dr_last.ok
    /\ Len(dr_calls) > 0

\* C15: stop() sets the flag and touches neither the task, the cell, the poll
\* count nor the callback; the first run of the task after it ends the task
\* without a poll of the chain and without a call of the callback.
C15_StopIsCooperative ==
    /\ [][(dr_nops' = dr_nops + 1 /\ dr_last'.op = "stop") =>
             /\ dr_done'
             /\ UNCHANGED <<dr_task, dr_inner, dr_receivers, dr_calls, dr_polls,
                            dr_runs>>]_vars
    /\ [][(dr_nops' = dr_nops + 1 /\ dr_last'.op = "run" /\ dr_done) =>
             /\ dr_runs = dr_stopRuns
             /\ dr_task' = "finished"
             /\ dr_polls' = dr_polls
             /\ dr_calls' = dr_calls]_vars

\* stop() was called on a parked driver, a set woke it and it ended.
C15_Witness ==
    /\ dr_stopAt = "parked"
    /\ dr_task = "finished"
    /\ dr_last.op = "run"
    /\ dr_last.polls = 0

\* C16: for_each hands out the handle without a poll of the chain and without
\* a call of the callback; and when stop() is called before the first run of
\* the task, the callback is never invoked.
C16_NoPollBeforeFirstRun ==
    /\ [][(dr_nops' = dr_nops + 1 /\ dr_last'.op = "for_each") =>
             /\ dr_handle' = "held"
             /\ UNCHANGED <<dr_inner, dr_polls, dr_calls, dr_runs>>]_vars
    /\ [](dr_stopRuns = 0 => dr_calls = << >>)

\* stop() came before the first run; the task then ran and ended with the
\* initial value still in the cell.
C16_Witness ==
    /\ dr_stopRuns = 0
    /\ dr_task = "finished"
    /\ dr_receivers = 1
    /\ dr_nsets = 0
    /\ dr_inner.value = Some(1)

\* ----------------------------- further claims on the mutable variable
\* C23: a value held by the cell, the initial one or one written by set, is
\* returned as Changed by at most one poll, whichever Receiver clone and task
\* make it; from that poll to the next successful set every poll returns
\* NotChanged.
C23_ValueTakenOnce ==
    /\ mu_taken <= 1
    /\ (mu_last.op = "poll" /\ IsChanged(mu_last.out)) => mu_taken = 1

\* With two Receiver clones alive, one task was handed the value and the
\* poll of the other task that followed got NotChanged.
C23_Witness ==
    /\ mu_last.op = "poll"
    /\ mu_prev.op = "poll"
    /\ mu_last.receivers = MaxClones
    /\ mu_last.task # mu_prev.task
    /\ IsChanged(mu_prev.out)
    /\ mu_last.out = NotChanged
    /\ mu_taken = 1

\* ------------------------------------------- further claims on for_each
\* C22 (as stated): once stop() has been called on the handle of a parked
\* driver, the driver task eventually ends under a fair scheduler, whether or
\* not a Sender.set follows.
C22_StoppedParkedDriverEnds ==
    (dr_done /\ dr_stopAt = "parked") ~> (dr_task = "finished")

\* What holds instead: a parked driver leaves the parked state only by the
\* notification a successful set sends, so with no set after stop() it stays
\* parked, and the Receiver it owns stays alive.
C22_ParkedUntilSet ==
    [][(dr_task = "parked" /\ dr_task' # "parked") =>
          /\ dr_last'.op = "set"
          /\ dr_last'.ok
          /\ dr_last'.notify = Some(DriverTask)]_vars

\* stop() was called on a parked driver and nothing has happened since.
C22_Stuck ==
    /\ dr_last.op = "stop"
    /\ dr_stopAt = "parked"
    /\ dr_task = "parked"
    /\ dr_receivers = 1

\* ------------------------------------------ claims on for_each over Flatten
\* The scheduler is fair to a task it has queued: it runs it.
SpecFlattenDriver ==
    InitCombinator /\ [][FlattenDriverNext]_vars /\ WF_vars(FlattenDriverRun)

\* C21 (as stated): whenever the driver of a Flatten over a mutable variable
\* is parked, its task is registered as the waiter of the outer variable, and
\* the inner signal written by a successful set of the outer variable that
\* found the driver parked is eventually polled.
C21_NoLostWakeup ==
    /\ [](fd_task = "parked" => fd_outer.task = Some(DriverTask))
    /\ (fd_owed ~> ~fd_owed)

\* What holds instead: a parked driver is registered on the outer variable
\* or on the inner signal Flatten holds, and it is missing from the outer
\* variable only when the outer Receiver gave Changed in the poll that parked
\* it, that is when the outer cell is empty.
C21_RegisteredOnOuterOrInner ==
    fd_task = "parked" =>
        \/ fd_outer.task = Some(DriverTask)
        \/ /\ fd_inner.some
           /\ fd_itask[fd_inner.value] = Some(DriverTask)
           /\ fd_last.op = "run" => ~fd_outer.value.some

\* The driver parked on the tick on which the outer variable switched to an
\* inner signal that had nothing to give: no task is registered on the outer
\* variable, and the set of the outer variable that followed woke nobody.
C21_LostWakeup ==
    /\ fd_task = "parked"
    /\ fd_last.op = "outer_set"
    /\ fd_last.ok
    /\ fd_last.notify = None
    /\ fd_owed
    /\ fd_cells[Len(fd_cells)].some

====
